---- MODULE Spec2Model ----
(***************************************************************************)
(* Model of src/index.js: an Express server that provisions a SQLite       *)
(* schema, reloads three CSV sources into it at startup (loadCSVData) and  *)
(* answers read-only aggregate queries.                                    *)
(*                                                                         *)
(* Text is modelled as TLA+ strings read character by character, so that   *)
(* trim, parseFloat, strftime and LIKE are computed, not assumed.  REAL    *)
(* columns hold integers (the model's alphabet has no decimal point); a    *)
(* nullable column value is <<>> (NULL) or <<v>>.                          *)
(***************************************************************************)
EXTENDS Integers, Sequences, FiniteSets, TLC

(***************************************************************************)
(* Text helpers                                                            *)
(***************************************************************************)

\* The byte-order mark U+FEFF is written "~" in the model's alphabet.
BOM == "~"

NULL == <<>>

Char(s, i) == SubSeq(s, i, i)

\* Characters of the model's alphabet in code-point order (SQLite compares
\* TEXT with memcmp under the default BINARY collation).
Alphabet == <<"\t", " ", "%", "-", "/", "0", "1", "2", "3", "4", "5", "6", "7",
              "8", "9", ":", "B", "T", "X", "_", "b", "t", "x", "~">>

Code(c) == CHOOSE i \in 1..Len(Alphabet) : Alphabet[i] = c

Digits == {"0", "1", "2", "3", "4", "5", "6", "7", "8", "9"}

DigitVal(c) == Code(c) - Code("0")

\* JavaScript WhiteSpace as String.prototype.trim sees it (U+FEFF included).
IsSpace(c) == c \in {" ", "\t", BOM}

RECURSIVE TrimStart(_)
TrimStart(s) ==
    IF Len(s) > 0 /\ IsSpace(Char(s, 1)) THEN TrimStart(SubSeq(s, 2, Len(s))) ELSE s

RECURSIVE TrimEnd(_)
TrimEnd(s) ==
    IF Len(s) > 0 /\ IsSpace(Char(s, Len(s))) THEN TrimEnd(SubSeq(s, 1, Len(s) - 1)) ELSE s

\* String.prototype.trim
Trim(s) == TrimEnd(TrimStart(s))

\* val.toString().replace(/^\uFEFF/, '').trim()
NormalizeHeader(s) ==
    Trim(IF Len(s) > 0 /\ Char(s, 1) = BOM THEN SubSeq(s, 2, Len(s)) ELSE s)

RECURSIVE DigitRun(_, _)
\* Number of leading decimal digits of s from position i on.
DigitRun(s, i) ==
    IF i <= Len(s) /\ Char(s, i) \in Digits THEN 1 + DigitRun(s, i + 1) ELSE 0

RECURSIVE DigitsValue(_, _, _)
DigitsValue(s, i, n) ==
    IF n = 0 THEN 0 ELSE DigitsValue(s, i, n - 1) * 10 + DigitVal(Char(s, i + n - 1))

\* parseFloat: skip leading white space, optional sign, the longest run of
\* digits; NaN (here NULL, as sqlite3_bind_double stores NaN) when there is
\* none.  Anything after the digits is ignored.
parseFloat(s) ==
    LET t == TrimStart(s)
        neg == Len(t) > 0 /\ Char(t, 1) = "-"
        from == IF neg THEN 2 ELSE 1
        n == DigitRun(t, from)
    IN  IF n = 0 THEN NULL
        ELSE <<(IF neg THEN -1 ELSE 1) * DigitsValue(t, from, n)>>

RECURSIVE TextLess(_, _)
\* memcmp order of two texts.
TextLess(a, b) ==
    IF Len(b) = 0 THEN FALSE
    ELSE IF Len(a) = 0 THEN TRUE
    ELSE IF Char(a, 1) # Char(b, 1) THEN Code(Char(a, 1)) < Code(Char(b, 1))
    ELSE TextLess(SubSeq(a, 2, Len(a)), SubSeq(b, 2, Len(b)))

TextLeq(a, b) == a = b \/ TextLess(a, b)

\* SQLite's LIKE folds the case of ASCII letters.
Fold(c) == IF c = "B" THEN "b" ELSE IF c = "T" THEN "t" ELSE IF c = "X" THEN "x" ELSE c

RECURSIVE Like(_, _)
\* text LIKE pattern: "%" matches any run of characters, "_" any one.
Like(pattern, text) ==
    IF Len(pattern) = 0 THEN Len(text) = 0
    ELSE LET p == Char(pattern, 1)
             rest == SubSeq(pattern, 2, Len(pattern))
         IN  IF p = "%"
             THEN \E k \in 0..Len(text) : Like(rest, SubSeq(text, k + 1, Len(text)))
             ELSE /\ Len(text) > 0
                  /\ (p = "_" \/ Fold(p) = Fold(Char(text, 1)))
                  /\ Like(rest, SubSeq(text, 2, Len(text)))

(***************************************************************************)
(* SQLite date handling, as used by strftime() in the queries.  The forms  *)
(* covered are YYYY-MM-DD, optionally followed by white space or "T" and   *)
(* HH:MM or HH:MM:SS with hour 00..23; every other text in the model's     *)
(* inputs is one SQLite rejects as well (strftime yields NULL).            *)
(***************************************************************************)

\* A number within lo..hi, else NULL.
InRange(v, lo, hi) == IF v >= lo /\ v <= hi THEN <<v>> ELSE NULL

\* getDigits: n digits at position i, with value in lo..hi; NULL otherwise.
GetDigits(s, i, n, lo, hi) ==
    IF i + n - 1 <= Len(s) /\ \A k \in i..(i + n - 1) : Char(s, k) \in Digits
    THEN InRange(DigitsValue(s, i, n), lo, hi)
    ELSE NULL

IsLeap(y) == (y % 4 = 0 /\ y % 100 # 0) \/ y % 400 = 0

DaysInMonth(y, m) ==
    IF m = 2 THEN (IF IsLeap(y) THEN 29 ELSE 28)
    ELSE IF m \in {4, 6, 9, 11} THEN 30 ELSE 31

RECURSIVE SkipSeparators(_, _)
\* while( sqlite3Isspace(*zDate) || 'T'==*zDate ) zDate++
SkipSeparators(s, i) ==
    IF i <= Len(s) /\ Char(s, i) \in {" ", "\t", "T"} THEN SkipSeparators(s, i + 1) ELSE i

RECURSIVE OnlySpaces(_, _)
OnlySpaces(s, i) ==
    i > Len(s) \/ (Char(s, i) \in {" ", "\t"} /\ OnlySpaces(s, i + 1))

\* The tail of parseHhMmSs once HH and MM are read (h, m: NULL if not).
HhMmSsTail(s, i, h, m) ==
    IF h = NULL \/ m = NULL \/ i + 2 > Len(s) \/ Char(s, i + 2) # ":" THEN NULL
    ELSE IF i + 5 <= Len(s) /\ Char(s, i + 5) = ":"
         THEN (IF GetDigits(s, i + 6, 2, 0, 59) # NULL /\ OnlySpaces(s, i + 8)
               THEN h ELSE NULL)
         ELSE (IF OnlySpaces(s, i + 5) THEN h ELSE NULL)

\* parseHhMmSs from position i: <<hour>> or NULL.
ParseHhMmSs(s, i) ==
    HhMmSsTail(s, i, GetDigits(s, i, 2, 0, 23), GetDigits(s, i + 3, 2, 0, 59))

\* computeJD followed by computeYMD: a day past the end of its month is
\* carried into the next month.
Carry(Y, M, D, h, dim) ==
    <<[Y |-> Y, M |-> IF D > dim THEN M + 1 ELSE M, D |-> IF D > dim THEN D - dim ELSE D,
       h |-> h]>>

\* What follows the date: nothing, or a time.
DateTail(s, i, Y, M, D, hms) ==
    IF hms = NULL /\ i <= Len(s) THEN NULL
    ELSE Carry(Y, M, D, IF hms # NULL THEN hms[1] ELSE 0, DaysInMonth(Y, M))

\* parseYyyyMmDd once the three numbers are read (each NULL if not).
DateParts(s, Y, M, D, i) ==
    IF Y = NULL \/ M = NULL \/ D = NULL \/ Char(s, 5) # "-" \/ Char(s, 8) # "-"
    THEN NULL
    ELSE DateTail(s, i, Y[1], M[1], D[1], ParseHhMmSs(s, i))

\* The date and hour SQLite reads from a time string: NULL when it is not a
\* time string, else <<[Y, M, D, h]>>.
ParseDateTime(s) ==
    DateParts(s, GetDigits(s, 1, 4, 0, 9999), GetDigits(s, 6, 2, 1, 12),
              GetDigits(s, 9, 2, 1, 31), SkipSeparators(s, 11))

DigitStr(d) == Alphabet[Code("0") + d]

Pad2(n) == DigitStr(n \div 10) \o DigitStr(n % 10)

Pad4(n) == Pad2(n \div 100) \o Pad2(n % 100)

\* The text of a parsed date under one of the formats the queries use.
FormatDate(fmt, d) ==
    IF fmt = "%Y" THEN Pad4(d.Y)
    ELSE IF fmt = "%Y-%m" THEN Pad4(d.Y) \o "-" \o Pad2(d.M)
    ELSE IF fmt = "%Y-%m-%d" THEN Pad4(d.Y) \o "-" \o Pad2(d.M) \o "-" \o Pad2(d.D)
    ELSE IF fmt = "%H" THEN Pad2(d.h)
    ELSE Pad2(d.h) \o ":00"

Formatted(fmt, d) == IF d = NULL THEN NULL ELSE <<FormatDate(fmt, d[1])>>

\* strftime(fmt, timestamp): NULL when timestamp is not a time string.
strftime(fmt, ts) == Formatted(fmt, ParseDateTime(ts))

(***************************************************************************)
(* Relations and the read queries                                          *)
(***************************************************************************)

\* LIMIT of GET /api/energy-breakdown (24 in the source, scaled down).
BreakdownLimit == 2

\* The 14 REAL columns of energy_breakdown, in column order.
Components ==
    <<"renewable_biomass", "renewable_hydro", "renewable_solar", "renewable_wind",
      "renewable_geothermal", "renewable_otherrenewable", "renewable",
      "nonrenewable_coal", "nonrenewable_gas", "nonrenewable_nuclear",
      "nonrenewable_oil", "nonrenewable", "hydropumpedstorage", "unknown">>

ComponentSet == {Components[i] : i \in 1..Len(Components)}

Min(a, b) == IF a < b THEN a ELSE b

\* All ways to list the finite set S without repetition.
Orderings(S) ==
    {f \in [1..Cardinality(S) -> S] : \A i, j \in 1..Cardinality(S) : i # j => f[i] # f[j]}

RECURSIVE SumValues(_)
\* Sum of the non-NULL values of a set of rows (each carrying .v).
SumValues(rows) ==
    IF rows = {} THEN 0
    ELSE LET r == CHOOSE r \in rows : TRUE
         IN  (IF r.v = NULL THEN 0 ELSE r.v[1]) + SumValues(rows \ {r})

\* SUM(active_energy) over a set of smart_meter_data rows: NULL when no row
\* has a value.
SumActive(rows) ==
    IF \A r \in rows : r.active_energy = NULL THEN NULL
    ELSE <<SumValues({[id |-> r.id, v |-> r.active_energy] : r \in rows})>>

\* COALESCE(x, 0)
Coalesce0(x) == IF x = NULL THEN 0 ELSE x[1]

\* ORDER BY ... DESC on a nullable number: NULL sorts below every value.
DescOk(a, b) == b = NULL \/ (a # NULL /\ a[1] >= b[1])

\* Variant: an inner join, which drops the buildings without readings.
BuildingsRowsInnerJoin(md, smd) ==
    {[cpe |-> m.cpe, lat |-> m.lat, lon |-> m.lon, totalarea |-> m.totalarea,
      name |-> m.name, fulladdress |-> m.fulladdress,
      annual_energy |-> Coalesce0(SumActive({r \in smd : r.cpe = m.cpe}))] :
        m \in {n \in md : \E r \in smd : r.cpe = n.cpe}}

\* GET /api/buildings: the result set, one row per metadata row.
BuildingsRows(md, smd) ==
    {[cpe |-> m.cpe, lat |-> m.lat, lon |-> m.lon, totalarea |-> m.totalarea,
      name |-> m.name, fulladdress |-> m.fulladdress,
      annual_energy |-> Coalesce0(SumActive({r \in smd : r.cpe = m.cpe}))] : m \in md}

\* The orders SQLite may return it in (rows with equal totals in any order).
BuildingsQuery(md, smd) ==
    {s \in Orderings(BuildingsRows(md, smd)) :
        \A i, j \in 1..Len(s) : i < j => s[i].annual_energy >= s[j].annual_energy}

\* GET /api/buildings-energy: the WHERE on smd.timestamp drops the buildings
\* the LEFT JOIN kept without a reading of that year.
BuildingsEnergyRows(md, smd, year) ==
    LET of(m) == {r \in smd : r.cpe = m.cpe /\ strftime("%Y", r.timestamp) = <<year>>}
    IN  {[cpe |-> m.cpe, name |-> m.name, lat |-> m.lat, lon |-> m.lon,
          totalarea |-> m.totalarea, annual_energy |-> SumActive(of(m))] :
            m \in {m \in md : of(m) # {}}}

BuildingsEnergyQuery(md, smd, year) ==
    {s \in Orderings(BuildingsEnergyRows(md, smd, year)) :
        \A i, j \in 1..Len(s) : i < j => DescOk(s[i].annual_energy, s[j].annual_energy)}

\* `${x}`: the text of a query parameter that may be undefined (NULL).
JsString(x) == IF x = NULL THEN "undefined" ELSE x[1]

\* a || b on query-string parameters: undefined and "" are falsy.
JsOr(a, b) == IF a = NULL \/ a = <<"">> THEN <<b>> ELSE a

\* Variant: the WHERE without the comparison with the parameter.
BucketHitAnyPeriod(smd, cpe, filterFmt, param) ==
    {r \in smd : r.cpe = cpe /\ param # NULL /\ strftime(filterFmt, r.timestamp) # NULL}

\* WHERE cpe = ? AND strftime(filterFmt, timestamp) = ?
BucketHit(smd, cpe, filterFmt, param) ==
    {r \in smd : r.cpe = cpe /\ param # NULL /\ strftime(filterFmt, r.timestamp) = param}

\* GROUP BY strftime(groupFmt, timestamp), one row per group, labelled by
\* labelFmt.
BucketGroups(hit, groupFmt, labelFmt) ==
    {[label |-> strftime(labelFmt, r.timestamp)[1],
      total_energy |-> SumActive({t \in hit :
                          strftime(groupFmt, t.timestamp) = strftime(groupFmt, r.timestamp)})] :
        r \in hit}

\* ORDER BY the label.
ByLabel(rows) ==
    CHOOSE s \in Orderings(rows) :
        \A i, j \in 1..Len(s) : i < j => TextLeq(s[i].label, s[j].label)

\* The rows one time-bucketed SELECT yields.
BucketRows(smd, cpe, filterFmt, param, groupFmt, labelFmt) ==
    ByLabel(BucketGroups(BucketHit(smd, cpe, filterFmt, param), groupFmt, labelFmt))

\* The switch on period: the format filtered on, the bound parameter, the
\* format grouped by and the format shown.
PeriodPlan(period, year, month, day) ==
    IF period = "monthly"
    THEN [filter |-> "%Y", param |-> year, group |-> "%Y-%m", label |-> "%Y-%m"]
    ELSE IF period = "daily"
    THEN [filter |-> "%Y-%m", param |-> JsOr(month, JsString(year) \o "-01"),
          group |-> "%Y-%m-%d", label |-> "%Y-%m-%d"]
    ELSE [filter |-> "%Y-%m-%d", param |-> JsOr(day, JsString(year) \o "-01-01"),
          group |-> "%H", label |-> "%H:00"]

PlanRows(smd, cpe, plan) ==
    BucketRows(smd, cpe, plan.filter, plan.param, plan.group, plan.label)

\* GET /api/energy/:cpe/:period
EnergyQuery(smd, cpe, period, year, month, day) ==
    IF period \in {"monthly", "daily", "hourly"}
    THEN [status |-> 200, body |-> PlanRows(smd, cpe, PeriodPlan(period, year, month, day))]
    ELSE [status |-> 400, body |-> <<>>]

\* The rows GET /api/energy-breakdown selects: all, or those LIKE 'timestamp%'.
BreakdownRows(eb, timestamp) ==
    IF timestamp = NULL \/ timestamp = <<"">> THEN eb
    ELSE {r \in eb : Like(timestamp[1] \o "%", r.timestamp)}

\* ORDER BY timestamp LIMIT 24: the first rows of any timestamp order.
BreakdownQuery(eb, timestamp) ==
    LET rows == BreakdownRows(eb, timestamp)
    IN  {SubSeq(s, 1, Min(Len(s), BreakdownLimit)) :
            s \in {s \in Orderings(rows) :
                    \A i, j \in 1..Len(s) : i < j => TextLeq(s[i].timestamp, s[j].timestamp)}}

(***************************************************************************)
(* Inputs: the CSV sources                                                 *)
(***************************************************************************)

\* A source file that does not exist (fs.existsSync is false).
Absent == [exists |-> FALSE, rows |-> <<>>]

File(rows) == [exists |-> TRUE, rows |-> rows]

\* How many times the server process is started on the same database file.
MaxRuns == 2

\* maxRecords of the smart-meter stream (10000 in the source, scaled down).
maxRecordsMeter == 2

\* maxRecords of the breakdown stream (1000 in the source, scaled down).
maxRecordsBreakdown == 2

MetaCells(cpe, lat, lon, area, name, addr) == <<cpe, lat, lon, area, name, addr>>

MeterRow(cpe, ts, energy) == [cpe |-> cpe, timestamp |-> ts, active_energy |-> energy]

\* A breakdown record as csv-parser delivers it: every component column
\* carries the same text v.
BreakdownRow(ts, v) == [timestamp |-> ts, values |-> [c \in ComponentSet |-> v]]

\* metadata.csv is read with headers: false: a list of rows of cells, the
\* header row first.  The other two are lists of records keyed by header.
Scenarios ==
    { [meta |-> File(<< <<"~cpe", " lat", "lon", "totalarea", "name", "fulladdress">>,
                        MetaCells("B1", "40", "-73", "1000", "A", "1 Main St"),
                        MetaCells("", "41", "x", "", "N", "nowhere") >>),
       meter |-> File(<< MeterRow("B1", "2021-03-01T00:00:00", "5"),
                         MeterRow("B1", "2021-03-02T00:00:00", "3"),
                         MeterRow("B1", "2021-04-01", "4") >>),
       breakdown |-> File(<< BreakdownRow("2021-01-01T00:00", "1") >>)],
      [meta |-> File(<< <<"cpe", "lat", "lon", "totalarea", "name", "fulladdress">>,
                        MetaCells(" B1", "40", "-73", "1000", "A", "1 Main St"),
                        MetaCells(" \t", "41", "0", "5", "N", "nowhere"),
                        MetaCells("B1 ", "42", "-70", "900", "B", "9 Side St") >>),
       meter |-> File(<< MeterRow(" ", "2021-03-01", "9"),
                         MeterRow("B1", "2021-03-01", "x") >>),
       breakdown |-> Absent],
      [meta |-> Absent,
       meter |-> File(<< MeterRow("", "2021-03-01", "8"),
                         MeterRow("B1", "2021-03-01", "5"),
                         MeterRow("B2", "2022-01-31", "-3") >>),
       breakdown |-> Absent] }

(***************************************************************************)
(* State                                                                   *)
(***************************************************************************)

VARIABLES
    files,              \* the three CSV sources on disk
    metadata,           \* relation metadata (cpe is its primary key)
    smart_meter_data,   \* relation smart_meter_data
    energy_breakdown,   \* relation energy_breakdown
    sqlite_sequence,    \* AUTOINCREMENT counters, kept across DELETE
    schema,             \* the schema statements that have taken effect (1..6)
    db,                 \* the sqlite3.Database connection: open, locked, queue, pending
    pc,                 \* startServer's position, then the event loop
    listening,          \* app.listen has been called
    metaStream,         \* metadata.csv stream: isFirstRow, headers, metadata[]
    meterStream,        \* smart_meter.csv stream and its count
    breakdownStream,    \* energy_source_breakdown.csv stream and its count
    old,                \* the relations as the process found them at start
    runs,               \* number of process starts so far
    fault,              \* the statement kind whose failure killed the process
    req,                \* the request whose db.all is scheduled, if any
    resp                \* the response to the latest request, once sent

vars == <<files, metadata, smart_meter_data, energy_breakdown, sqlite_sequence, schema,
          db, pc, listening, metaStream, meterStream, breakdownStream, old, runs,
          fault, req, resp>>

tables == <<metadata, smart_meter_data, energy_breakdown, sqlite_sequence, schema>>

streams == <<metaStream, meterStream, breakdownStream>>

\* A request: the endpoint, its route parameters and its query string
\* (NULL for a parameter that is not given).
Req(endpoint, cpe, period, year, month, day, timestamp) ==
    [endpoint |-> endpoint, cpe |-> cpe, period |-> period, year |-> year,
     month |-> month, day |-> day, timestamp |-> timestamp]

NoReq == Req("none", "", "", NULL, NULL, NULL, NULL)

NoResp == [req |-> NoReq, status |-> 0, body |-> <<>>]

\* new sqlite3.Database(dbPath): not yet open, nothing scheduled.
NewDb == [open |-> FALSE, locked |-> FALSE, queue |-> <<>>, pending |-> {}]

NewMetaStream == [opened |-> FALSE, pos |-> 0, ended |-> FALSE,
                  isFirstRow |-> TRUE, headers |-> <<>>, metadata |-> <<>>]

NewCountStream == [opened |-> FALSE, pos |-> 0, ended |-> FALSE, count |-> 0]

Snapshot == [metadata |-> metadata, smart_meter_data |-> smart_meter_data,
             energy_breakdown |-> energy_breakdown]

\* A database file that does not exist yet.
FreshDatabase ==
    /\ metadata = {}
    /\ smart_meter_data = {}
    /\ energy_breakdown = {}
    /\ sqlite_sequence = [smart_meter_data |-> 0, energy_breakdown |-> 0]
    /\ schema = {}

\* A process that has just been started.
Started ==
    /\ db = NewDb
    /\ pc = "start"
    /\ listening = FALSE
    /\ metaStream = NewMetaStream
    /\ meterStream = NewCountStream
    /\ breakdownStream = NewCountStream
    /\ old = Snapshot
    /\ runs = 1
    /\ fault = "none"
    /\ req = NoReq
    /\ resp = NoResp

\* A first start on a database file that does not exist yet.
Init ==
    /\ files \in Scenarios
    /\ FreshDatabase
    /\ Started

(***************************************************************************)
(* The sqlite3 connection: statements are scheduled on the connection and  *)
(* run on a thread pool.  Statements issued inside db.serialize() are      *)
(* exclusive: each waits for everything before it and runs alone.  The     *)
(* others run in parallel, in whatever order the pool completes them.      *)
(***************************************************************************)

Op(kind, arg) == [kind |-> kind, arg |-> arg]

\* The statements the source issues under db.serialize().
Exclusive(op) == op.kind \in {"schema", "insertMetadata"}

RECURSIVE Process(_)
\* Database::Process -- start every queued statement that may start now.
Process(d) ==
    IF d.open /\ (~d.locked \/ d.pending = {}) /\ d.queue # <<>>
    THEN LET call == Head(d.queue)
         IN  IF Exclusive(call) /\ d.pending # {} THEN d
             ELSE Process([d EXCEPT !.queue = Tail(@),
                                    !.locked = Exclusive(call),
                                    !.pending = @ \cup {call}])
    ELSE d

\* Database::Schedule -- queue the statement, or start it at once.
Schedule(d, op) ==
    IF ~d.open \/ ((d.locked \/ Exclusive(op)) /\ d.pending # {})
    THEN [d EXCEPT !.queue = Append(@, op)]
    ELSE [d EXCEPT !.locked = Exclusive(op), !.pending = @ \cup {op}]

RECURSIVE ScheduleAll(_, _)
ScheduleAll(d, ops) ==
    IF ops = <<>> THEN d ELSE ScheduleAll(Schedule(d, Head(ops)), Tail(ops))

\* The statement has run: its completion callback lets the next ones start.
Complete(d, op) == Process([d EXCEPT !.pending = @ \ {op}])

\* An 'error' event with no listener (a statement run without a callback, or
\* the connection itself) is thrown: the process dies and its memory is gone.
\* The database file stays as it is.
Crash(kind) ==
    /\ pc' = "crashed"
    /\ fault' = kind
    /\ listening' = FALSE
    /\ db' = NewDb
    /\ metaStream' = NewMetaStream
    /\ meterStream' = NewCountStream
    /\ breakdownStream' = NewCountStream
    /\ req' = NoReq
    /\ UNCHANGED <<files, old, runs, resp>>

(***************************************************************************)
(* startServer                                                             *)
(***************************************************************************)

\* initializeDatabase: six statements scheduled under db.serialize(), then
\* resolve() at once, without waiting for any of them.
initializeDatabase ==
    /\ pc = "start"
    /\ db' = ScheduleAll(db, [i \in 1..6 |-> Op("schema", i)])
    /\ pc' = "load"
    /\ UNCHANGED <<files, tables, listening, streams, old, runs, fault, req, resp>>

\* loadCSVData up to its return: three DELETEs scheduled outside
\* db.serialize(), then a read stream created on each source that exists.
loadCSVData ==
    /\ pc = "load"
    /\ db' = ScheduleAll(db, <<Op("delete", 1), Op("delete", 2), Op("delete", 3)>>)
    /\ metaStream' = [metaStream EXCEPT !.opened = files.meta.exists]
    /\ meterStream' = [meterStream EXCEPT !.opened = files.meter.exists]
    /\ breakdownStream' = [breakdownStream EXCEPT !.opened = files.breakdown.exists]
    /\ pc' = "listen"
    /\ UNCHANGED <<files, tables, listening, old, runs, fault, req, resp>>

\* app.listen(PORT): the last statement of startServer; from here on only
\* event-loop callbacks run.
Listen ==
    /\ pc = "listen"
    /\ listening' = TRUE
    /\ pc' = "loop"
    /\ UNCHANGED <<files, tables, db, streams, old, runs, fault, req, resp>>

\* The connection opened at module load completes, or fails.
DbOpened ==
    /\ pc = "loop"
    /\ ~db.open
    /\ \/ /\ db' = Process([db EXCEPT !.open = TRUE])
          /\ UNCHANGED <<files, tables, pc, listening, streams, old, runs, fault, req, resp>>
       \/ /\ Crash("open")
          /\ UNCHANGED tables

(***************************************************************************)
(* The CSV streams' handlers                                               *)
(***************************************************************************)

\* dataRow: the cells of a row keyed by the header of the same index.
\* (A cell past the last header lands under the key "undefined"; of two
\* cells with the same key the later one stays.)
DataRow(headers, cells) ==
    LET n == Len(cells)
        header(i) == IF i <= Len(headers) THEN headers[i] ELSE "undefined"
        keys == {header(i) : i \in 1..n}
    IN  [k \in keys |-> cells[CHOOSE i \in 1..n :
                                /\ header(i) = k
                                /\ \A j \in 1..n : header(j) = k => j <= i]]

\* metadata stream .on('data')
MetadataData ==
    /\ pc = "loop"
    /\ metaStream.opened
    /\ metaStream.pos < Len(files.meta.rows)
    /\ LET row == files.meta.rows[metaStream.pos + 1]
       IN  metaStream' =
             IF metaStream.isFirstRow
             THEN [metaStream EXCEPT !.pos = @ + 1,
                                     !.isFirstRow = FALSE,
                                     !.headers = [i \in 1..Len(row) |-> NormalizeHeader(row[i])]]
             ELSE [metaStream EXCEPT !.pos = @ + 1,
                                     !.metadata = Append(@, DataRow(metaStream.headers, row))]
    /\ UNCHANGED <<files, tables, db, pc, listening, meterStream, breakdownStream,
                   old, runs, fault, req, resp>>

\* metadata stream .on('end'): prepare, the runs and finalize are issued
\* under db.serialize().
MetadataEnd ==
    /\ pc = "loop"
    /\ metaStream.opened
    /\ ~metaStream.ended
    /\ metaStream.pos = Len(files.meta.rows)
    /\ metaStream' = [metaStream EXCEPT !.ended = TRUE]
    /\ db' = Schedule(db, Op("insertMetadata", 0))
    /\ UNCHANGED <<files, tables, pc, listening, meterStream, breakdownStream,
                   old, runs, fault, req, resp>>

\* row.cpe as a condition: undefined and "" are falsy.
Truthy(text) == text # ""

\* smart meter stream .on('data')
MeterData ==
    /\ pc = "loop"
    /\ meterStream.opened
    /\ meterStream.pos < Len(files.meter.rows)
    /\ LET row == files.meter.rows[meterStream.pos + 1]
       IN  IF meterStream.count < maxRecordsMeter /\ Truthy(row.cpe)
           THEN /\ db' = Schedule(db, Op("insertMeter", meterStream.pos + 1))
                /\ meterStream' = [meterStream EXCEPT !.pos = @ + 1, !.count = @ + 1]
           ELSE /\ db' = db
                /\ meterStream' = [meterStream EXCEPT !.pos = @ + 1]
    /\ UNCHANGED <<files, tables, pc, listening, metaStream, breakdownStream,
                   old, runs, fault, req, resp>>

\* smart meter stream .on('end')
MeterEnd ==
    /\ pc = "loop"
    /\ meterStream.opened
    /\ ~meterStream.ended
    /\ meterStream.pos = Len(files.meter.rows)
    /\ meterStream' = [meterStream EXCEPT !.ended = TRUE]
    /\ UNCHANGED <<files, tables, db, pc, listening, metaStream, breakdownStream,
                   old, runs, fault, req, resp>>

\* breakdown stream .on('data')
BreakdownData ==
    /\ pc = "loop"
    /\ breakdownStream.opened
    /\ breakdownStream.pos < Len(files.breakdown.rows)
    /\ IF breakdownStream.count < maxRecordsBreakdown
       THEN /\ db' = Schedule(db, Op("insertBreakdown", breakdownStream.pos + 1))
            /\ breakdownStream' = [breakdownStream EXCEPT !.pos = @ + 1, !.count = @ + 1]
       ELSE /\ db' = db
            /\ breakdownStream' = [breakdownStream EXCEPT !.pos = @ + 1]
    /\ UNCHANGED <<files, tables, pc, listening, metaStream, meterStream,
                   old, runs, fault, req, resp>>

\* breakdown stream .on('end')
BreakdownEnd ==
    /\ pc = "loop"
    /\ breakdownStream.opened
    /\ ~breakdownStream.ended
    /\ breakdownStream.pos = Len(files.breakdown.rows)
    /\ breakdownStream' = [breakdownStream EXCEPT !.ended = TRUE]
    /\ UNCHANGED <<files, tables, db, pc, listening, metaStream, meterStream,
                   old, runs, fault, req, resp>>

(***************************************************************************)
(* Statements running on the connection                                    *)
(***************************************************************************)

Running(kind) == {op \in db.pending : op.kind = kind}

\* One of the CREATE TABLE / CREATE INDEX statements runs.  It is run without
\* a callback, so a failure is an unhandled 'error' event.
ExecSchema ==
    /\ pc = "loop"
    /\ \E op \in Running("schema") :
        \/ /\ schema' = schema \cup {op.arg}
           /\ db' = Complete(db, op)
           /\ UNCHANGED <<files, metadata, smart_meter_data, energy_breakdown,
                          sqlite_sequence, pc, listening, streams, old, runs, fault, req, resp>>
        \/ /\ Crash("schema")
           /\ UNCHANGED tables

\* DELETE FROM smart_meter_data (1), energy_breakdown (2) or metadata (3).
\* sqlite_sequence keeps the highest id ever used.
ExecDelete ==
    /\ pc = "loop"
    /\ \E op \in Running("delete") :
        \/ /\ smart_meter_data' = IF op.arg = 1 THEN {} ELSE smart_meter_data
           /\ energy_breakdown' = IF op.arg = 2 THEN {} ELSE energy_breakdown
           /\ metadata' = IF op.arg = 3 THEN {} ELSE metadata
           /\ db' = Complete(db, op)
           /\ UNCHANGED <<files, sqlite_sequence, schema, pc, listening, streams,
                          old, runs, fault, req, resp>>
        \/ /\ Crash("delete")
           /\ UNCHANGED tables

\* The values stmt.run binds for one smart-meter record.
MeterValues(row) ==
    [cpe |-> row.cpe, timestamp |-> row.timestamp,
     active_energy |-> parseFloat(row.active_energy)]

\* INSERT INTO smart_meter_data of the record at position op.arg.
ExecInsertMeter ==
    /\ pc = "loop"
    /\ \E op \in Running("insertMeter") :
        \/ /\ LET v == MeterValues(files.meter.rows[op.arg])
                  id == sqlite_sequence.smart_meter_data + 1
              IN  /\ smart_meter_data' = smart_meter_data \cup
                        {[id |-> id, cpe |-> v.cpe, timestamp |-> v.timestamp,
                          active_energy |-> v.active_energy]}
                  /\ sqlite_sequence' = [sqlite_sequence EXCEPT !.smart_meter_data = id]
           /\ db' = Complete(db, op)
           /\ UNCHANGED <<files, metadata, energy_breakdown, schema, pc, listening,
                          streams, old, runs, fault, req, resp>>
        \/ /\ Crash("insertMeter")
           /\ UNCHANGED tables

\* The values stmt.run binds for one breakdown record.
BreakdownValues(row) ==
    [timestamp |-> row.timestamp,
     values |-> [c \in ComponentSet |-> parseFloat(row.values[c])]]

\* INSERT INTO energy_breakdown of the record at position op.arg.
ExecInsertBreakdown ==
    /\ pc = "loop"
    /\ \E op \in Running("insertBreakdown") :
        \/ /\ LET v == BreakdownValues(files.breakdown.rows[op.arg])
                  id == sqlite_sequence.energy_breakdown + 1
              IN  /\ energy_breakdown' = energy_breakdown \cup
                        {[id |-> id, timestamp |-> v.timestamp, values |-> v.values]}
                  /\ sqlite_sequence' = [sqlite_sequence EXCEPT !.energy_breakdown = id]
           /\ db' = Complete(db, op)
           /\ UNCHANGED <<files, metadata, smart_meter_data, schema, pc, listening,
                          streams, old, runs, fault, req, resp>>
        \/ /\ Crash("insertBreakdown")
           /\ UNCHANGED tables

\* row[k], undefined (NULL) when the row has no such key.
Field(row, k) == IF k \in DOMAIN row THEN <<row[k]>> ELSE NULL

\* parseFloat(row[k])
FloatField(row, k) == IF k \in DOMAIN row THEN parseFloat(row[k]) ELSE NULL

\* Variant: the test without the trim.
ValidCpeUntrimmed(row) == "cpe" \in DOMAIN row /\ Truthy(row.cpe)

\* if (row.cpe && row.cpe.trim())
ValidCpe(row) == "cpe" \in DOMAIN row /\ Truthy(row.cpe) /\ Truthy(Trim(row.cpe))

\* The values stmt.run binds for one metadata row.
MetadataValues(row) ==
    [cpe |-> Trim(row.cpe), lat |-> FloatField(row, "lat"), lon |-> FloatField(row, "lon"),
     totalarea |-> FloatField(row, "totalarea"), name |-> Field(row, "name"),
     fulladdress |-> Field(row, "fulladdress")]

\* metadata.forEach: the rows that pass the cpe test, as bound values.
MetadataParams(rows) ==
    LET keep == SelectSeq(rows, ValidCpe)
    IN  [i \in 1..Len(keep) |-> MetadataValues(keep[i])]

\* INSERT OR REPLACE INTO metadata: cpe is the primary key.
InsertOrReplace(md, r) == {m \in md : m.cpe # r.cpe} \cup {r}

RECURSIVE InsertAll(_, _, _)
\* The first k runs of the prepared statement, in order.
InsertAll(md, params, k) ==
    IF k = 0 THEN md ELSE InsertOrReplace(InsertAll(md, params, k - 1), params[k])

\* The metadata statement: prepared, run once per kept row and finalized,
\* alone on the connection.  Either every run succeeds, or one fails after
\* k of them have taken effect.
ExecInsertMetadata ==
    /\ pc = "loop"
    /\ \E op \in Running("insertMetadata") :
        LET params == MetadataParams(metaStream.metadata)
        IN  \/ /\ metadata' = InsertAll(metadata, params, Len(params))
               /\ db' = Complete(db, op)
               /\ UNCHANGED <<files, smart_meter_data, energy_breakdown, sqlite_sequence,
                              schema, pc, listening, streams, old, runs, fault, req, resp>>
            \/ \E k \in 0..(IF Len(params) = 0 THEN 0 ELSE Len(params) - 1) :
                /\ metadata' = InsertAll(metadata, params, k)
                /\ Crash("insertMetadata")
                /\ UNCHANGED <<smart_meter_data, energy_breakdown, sqlite_sequence, schema>>

(***************************************************************************)
(* The HTTP read API                                                       *)
(***************************************************************************)

\* A route handler up to db.all: the query is scheduled on the connection.
Request(q) ==
    /\ pc = "loop"
    /\ listening
    /\ req = NoReq
    /\ req' = q
    /\ resp' = NoResp
    /\ db' = Schedule(db, Op("query", 0))
    /\ UNCHANGED <<files, tables, pc, listening, streams, old, runs, fault>>

\* The responses the handler of q can send over relations md, smd and eb.
ResponsesOn(q, md, smd, eb) ==
    IF q.endpoint = "buildings"
    THEN {[req |-> q, status |-> 200, body |-> b] : b \in BuildingsQuery(md, smd)}
    ELSE IF q.endpoint = "energy"
    THEN {[req |-> q] @@ EnergyQuery(smd, q.cpe, q.period, q.year, q.month, q.day)}
    ELSE IF q.endpoint = "breakdown"
    THEN {[req |-> q, status |-> 200, body |-> b] : b \in BreakdownQuery(eb, q.timestamp)}
    ELSE {[req |-> q, status |-> 200, body |-> b] :
            b \in BuildingsEnergyQuery(md, smd, JsOr(q.year, "2021")[1])}

Responses(q) == ResponsesOn(q, metadata, smart_meter_data, energy_breakdown)

\* db.all runs and its callback sends the rows.
ExecQuery ==
    /\ pc = "loop"
    /\ \E op \in Running("query") :
        /\ resp' \in Responses(req)
        /\ req' = NoReq
        /\ db' = Complete(db, op)
        /\ UNCHANGED <<files, tables, pc, listening, streams, old, runs, fault>>

(***************************************************************************)
(* Running the server again                                                *)
(***************************************************************************)

\* Every stream has ended and the connection has nothing left to run.
LoadComplete ==
    /\ pc = "loop"
    /\ db.open /\ db.queue = <<>> /\ db.pending = {}
    /\ metaStream.opened => metaStream.ended
    /\ meterStream.opened => meterStream.ended
    /\ breakdownStream.opened => breakdownStream.ended

\* The process is stopped after its load and started again on the same
\* database file and the same sources.
Restart ==
    /\ LoadComplete
    /\ runs < MaxRuns
    /\ runs' = runs + 1
    /\ old' = Snapshot
    /\ pc' = "start"
    /\ listening' = FALSE
    /\ db' = NewDb
    /\ metaStream' = NewMetaStream
    /\ meterStream' = NewCountStream
    /\ breakdownStream' = NewCountStream
    /\ fault' = "none"
    /\ req' = NoReq
    /\ resp' = NoResp
    /\ UNCHANGED <<files, tables>>

\* Startup and ingestion, over one or more process runs.
Next ==
    \/ initializeDatabase
    \/ loadCSVData
    \/ Listen
    \/ DbOpened
    \/ MetadataData
    \/ MetadataEnd
    \/ MeterData
    \/ MeterEnd
    \/ BreakdownData
    \/ BreakdownEnd
    \/ ExecSchema
    \/ ExecDelete
    \/ ExecInsertMeter
    \/ ExecInsertBreakdown
    \/ ExecInsertMetadata
    \/ Restart

Spec == Init /\ [][Next]_vars

(***************************************************************************)
(* Serving while the load runs                                             *)
(***************************************************************************)

\* The requests sent while the startup load is running.
ServeRequests ==
    {Req("buildings", "", "", NULL, NULL, NULL, NULL),
     Req("breakdown", "", "", NULL, NULL, NULL, NULL)}

Serve == \E q \in ServeRequests : Request(q)

ServeNext ==
    \/ initializeDatabase
    \/ loadCSVData
    \/ Listen
    \/ DbOpened
    \/ MetadataData
    \/ MetadataEnd
    \/ MeterData
    \/ MeterEnd
    \/ BreakdownData
    \/ BreakdownEnd
    \/ ExecSchema
    \/ ExecDelete
    \/ ExecInsertMeter
    \/ ExecInsertBreakdown
    \/ ExecInsertMetadata
    \/ Serve
    \/ ExecQuery

RECURSIVE Accepted(_, _, _, _)
\* The positions of the records a counting 'data' handler inserts: those that
\* pass its test (keep[i]) while fewer than cap were inserted, from position
\* i on.
Accepted(keep, cap, i, count) ==
    IF i > Len(keep) THEN <<>>
    ELSE IF count < cap /\ keep[i]
         THEN <<i>> \o Accepted(keep, cap, i + 1, count + 1)
         ELSE Accepted(keep, cap, i + 1, count)

MeterKeep(row) == Truthy(row.cpe)

BreakdownKeep(row) == TRUE

\* smart_meter_data as a load that runs every statement in source order
\* leaves it, ids starting after base.
LoadedMeter(file, base) ==
    LET at == Accepted([i \in 1..Len(file.rows) |-> MeterKeep(file.rows[i])], maxRecordsMeter, 1, 0)
    IN  {[id |-> base + k, cpe |-> MeterValues(file.rows[at[k]]).cpe,
          timestamp |-> MeterValues(file.rows[at[k]]).timestamp,
          active_energy |-> MeterValues(file.rows[at[k]]).active_energy] : k \in DOMAIN at}

\* energy_breakdown as such a load leaves it.
LoadedBreakdown(file, base) ==
    LET at == Accepted([i \in 1..Len(file.rows) |-> BreakdownKeep(file.rows[i])],
                         maxRecordsBreakdown, 1, 0)
    IN  {[id |-> base + k, timestamp |-> BreakdownValues(file.rows[at[k]]).timestamp,
          values |-> BreakdownValues(file.rows[at[k]]).values] : k \in DOMAIN at}

\* The metadata array once the stream has ended.
ParsedMetadata(rows) ==
    IF rows = <<>> THEN <<>>
    ELSE [i \in 1..(Len(rows) - 1) |->
            DataRow([j \in 1..Len(rows[1]) |-> NormalizeHeader(rows[1][j])], rows[i + 1])]

AllInserted(params) == InsertAll({}, params, Len(params))

\* metadata as such a load leaves it.
LoadedMetadata(file) == AllInserted(MetadataParams(ParsedMetadata(file.rows)))

\* The database file as an earlier run on the same sources left it.
LoadedDatabase ==
    /\ metadata = LoadedMetadata(files.meta)
    /\ smart_meter_data = LoadedMeter(files.meter, 0)
    /\ energy_breakdown = LoadedBreakdown(files.breakdown, 0)
    /\ sqlite_sequence = [smart_meter_data |-> Cardinality(smart_meter_data),
                          energy_breakdown |-> Cardinality(energy_breakdown)]
    /\ schema = 1..6

\* A start on a fresh database file, or on one an earlier run has loaded.
ServeInit ==
    /\ files \in Scenarios
    /\ FreshDatabase \/ LoadedDatabase
    /\ Started

\* One process run, with clients querying from the moment it listens.
ServeSpec == ServeInit /\ [][ServeNext]_vars

(***************************************************************************)
(* The read queries over loaded relations                                  *)
(***************************************************************************)

\* Most rows of smart_meter_data in the relations drawn below.
MaxReadings == 3

\* Most rows of energy_breakdown in the relations drawn below.
MaxBreakdownRows == 3

\* Stored metadata rows: what MetadataValues binds for well-formed sources.
MetaPool ==
    {MetadataValues(DataRow(<<"cpe", "lat", "lon", "totalarea", "name", "fulladdress">>, c)) :
        c \in {MetaCells("B1", "40", "-73", "1000", "A", "1 Main St"),
               MetaCells(" B2", "x", "7", "", "C", "2 Main St"),
               MetaCells("b1", "41", "7", "20", "D", "3 Main St")}}

\* Smart-meter records as read from a source.
ReadingPool ==
    << MeterRow("B1", "2021-03-01T00:00:00", "5"),
       MeterRow("B1", "2021-03-02 10:30", "3"),
       MeterRow("B1", "2021-04-30", "4"),
       MeterRow("B1", "2022-01-31", "7"),
       MeterRow("B1", "2021-02-30", ""),
       MeterRow("B1", "03/01/2021", "9"),
       MeterRow("B2", "2021-03-01T00:00:00", "5"),
       MeterRow("B2", "2021-12-31T23:59:59", "-5"),
       MeterRow(" ", "2021-03-01", "1") >>

\* Breakdown records as read from a source.
BreakdownPool ==
    << BreakdownRow("2021-01-01T00:00", "1"),
       BreakdownRow("2021-01-01T01:00", "2"),
       BreakdownRow("2021-01-02T00:00", "3"),
       BreakdownRow("2020-12-31T23:00", "4"),
       BreakdownRow("2021x01-01T00:00", "x") >>

\* The lists of k indexes into a pool of n, in non-decreasing order.
Picks(n, k) ==
    {f \in [1..k -> 1..n] : \A i, j \in 1..k : i < j => f[i] <= f[j]}

\* smart_meter_data after the records picked were inserted in order.
MeterTable(pick) ==
    {[id |-> i, cpe |-> MeterValues(ReadingPool[pick[i]]).cpe,
      timestamp |-> MeterValues(ReadingPool[pick[i]]).timestamp,
      active_energy |-> MeterValues(ReadingPool[pick[i]]).active_energy] : i \in DOMAIN pick}

\* energy_breakdown after the records picked were inserted in order.
BreakdownTable(pick) ==
    {[id |-> i, timestamp |-> BreakdownValues(BreakdownPool[pick[i]]).timestamp,
      values |-> BreakdownValues(BreakdownPool[pick[i]]).values] : i \in DOMAIN pick}

\* The process after its load: listening, every statement run.
Serving ==
    /\ files = [meta |-> Absent, meter |-> Absent, breakdown |-> Absent]
    /\ schema = 1..6
    /\ db = [NewDb EXCEPT !.open = TRUE]
    /\ pc = "loop"
    /\ listening = TRUE
    /\ metaStream = NewMetaStream
    /\ meterStream = NewCountStream
    /\ breakdownStream = NewCountStream
    /\ old = Snapshot
    /\ runs = 1
    /\ fault = "none"
    /\ req = NoReq
    /\ resp = NoResp

\* A serving process over relations of buildings and readings, or over a
\* breakdown relation.  (The handlers read the relations only; sources are
\* left out of these states.)
QueryInit ==
    /\ \/ /\ metadata \in SUBSET MetaPool
          /\ \E k \in 0..MaxReadings : \E pick \in Picks(Len(ReadingPool), k) :
                /\ smart_meter_data = MeterTable(pick)
                /\ sqlite_sequence = [smart_meter_data |-> k, energy_breakdown |-> 0]
          /\ energy_breakdown = {}
       \/ /\ metadata = {}
          /\ smart_meter_data = {}
          /\ \E k \in 1..MaxBreakdownRows : \E pick \in Picks(Len(BreakdownPool), k) :
                /\ energy_breakdown = BreakdownTable(pick)
                /\ sqlite_sequence = [smart_meter_data |-> 0, energy_breakdown |-> k]
    /\ Serving

\* The requests a client sends.
QueryRequests ==
    {Req("buildings", "", "", NULL, NULL, NULL, NULL),
     Req("energy", "B1", "monthly", <<"2021">>, NULL, NULL, NULL),
     Req("energy", "B1", "monthly", <<"2022">>, NULL, NULL, NULL),
     Req("energy", "B2", "monthly", <<"2021">>, NULL, NULL, NULL),
     Req("energy", "B1", "monthly", NULL, NULL, NULL, NULL),
     Req("energy", "B1", "daily", <<"2021">>, <<"2021-03">>, NULL, NULL),
     Req("energy", "B1", "daily", <<"2021">>, NULL, NULL, NULL),
     Req("energy", "B1", "hourly", NULL, NULL, <<"2021-03-02">>, NULL),
     Req("energy", "B1", "hourly", <<"2021">>, NULL, <<"">>, NULL),
     Req("energy", "B1", "yearly", <<"2021">>, NULL, NULL, NULL),
     Req("breakdown", "", "", NULL, NULL, NULL, NULL),
     Req("breakdown", "", "", NULL, NULL, NULL, <<"">>),
     Req("breakdown", "", "", NULL, NULL, NULL, <<"2021-01-01">>),
     Req("breakdown", "", "", NULL, NULL, NULL, <<"2021-01-01t">>),
     Req("breakdown", "", "", NULL, NULL, NULL, <<"2021_01">>),
     Req("breakdown", "", "", NULL, NULL, NULL, <<"%2">>),
     Req("breakdown", "", "", NULL, NULL, NULL, <<"2022">>),
     Req("buildings-energy", "", "", NULL, NULL, NULL, NULL),
     Req("buildings-energy", "", "", <<"2022">>, NULL, NULL, NULL)}

Query == \E q \in QueryRequests : Request(q)

QueryNext ==
    \/ Query
    \/ ExecQuery

\* A loaded, serving process answering requests.
QuerySpec == QueryInit /\ [][QueryNext]_vars

(***************************************************************************)
(* Properties of startup and ingestion (Spec)                              *)
(***************************************************************************)

\* A stored reading without its surrogate id.
Reading(r) == [cpe |-> r.cpe, timestamp |-> r.timestamp, active_energy |-> r.active_energy]

\* The requests compared across two runs: one per endpoint.
RerunRequests ==
    {Req("buildings", "", "", NULL, NULL, NULL, NULL),
     Req("energy", "B1", "monthly", <<"2021">>, NULL, NULL, NULL),
     Req("breakdown", "", "", NULL, NULL, NULL, NULL),
     Req("buildings-energy", "", "", NULL, NULL, NULL, NULL)}

\* C1: once a second run of the load on the same sources has completed, every
\* read query has the results it had after the first run.
C1_RerunSameResults ==
    (runs > 1 /\ LoadComplete) =>
        \A q \in RerunRequests :
            Responses(q) = ResponsesOn(q, old.metadata, old.smart_meter_data,
                                       old.energy_breakdown)

\* C3: once the load of a meter source with more rows than the cap (each
\* with a building code) has completed, smart_meter_data holds exactly cap
\* rows, the first cap rows of the source.
C3_CapKeepsFirstRows ==
    (/\ LoadComplete
     /\ files.meter.exists
     /\ Len(files.meter.rows) > maxRecordsMeter
     /\ \A i \in 1..Len(files.meter.rows) : Trim(files.meter.rows[i].cpe) # "") =>
        /\ Cardinality(smart_meter_data) = maxRecordsMeter
        /\ {Reading(r) : r \in smart_meter_data} =
               {MeterValues(files.meter.rows[i]) : i \in 1..maxRecordsMeter}

\* C4: the server listens only once all six schema statements have succeeded.
C4_ListensOnlyWithSchema == listening => schema = 1..6

\* C8: no row of smart_meter_data has an empty or white-space-only building
\* code.
C8_NoBlankMeterCodes == \A r \in smart_meter_data : Trim(r.cpe) # ""

\* C9: a failed write of a source's load does not bring the process down.
C9_WriteFailureDoesNotCrash ==
    fault \in {"insertMeter", "insertBreakdown", "insertMetadata"} => pc # "crashed"

\* metadata's 'end' handler has run and its statement has finished.
MetadataLoaded ==
    /\ pc = "loop"
    /\ metaStream.ended
    /\ Op("insertMetadata", 0) \notin db.pending
    /\ \A i \in 1..Len(db.queue) : db.queue[i] # Op("insertMetadata", 0)

\* A source row whose building-code field is missing, empty or white space.
Blank(row) == "cpe" \notin DOMAIN row \/ Trim(row.cpe) = ""

\* No later row of the source carries the same building code as row i.
LastOfItsCode(src, i) ==
    \A j \in (i + 1)..Len(src) : Blank(src[j]) \/ Trim(src[j].cpe) # Trim(src[i].cpe)

\* C7 as amended: every stored building code is trimmed and non-empty; after a
\* metadata load every stored row comes from a source row with a building
\* code, and every such source row is stored unless a later row of the source
\* carries the same code (and replaces it).
C7_MetadataCodesValid ==
    /\ \A m \in metadata : m.cpe # "" /\ Trim(m.cpe) = m.cpe
    /\ MetadataLoaded =>
        LET src == ParsedMetadata(files.meta.rows)
        IN  /\ \A m \in metadata :
                  \E i \in 1..Len(src) : ~Blank(src[i]) /\ m = MetadataValues(src[i])
            /\ \A i \in 1..Len(src) :
                  (~Blank(src[i]) /\ LastOfItsCode(src, i)) => MetadataValues(src[i]) \in metadata

\* C7 as stated: after a metadata load every source row with a building code
\* is stored.
C7_EveryValidRowPersisted ==
    MetadataLoaded =>
        LET src == ParsedMetadata(files.meta.rows)
        IN  \A i \in 1..Len(src) : ~Blank(src[i]) => MetadataValues(src[i]) \in metadata

\* A metadata load has finished on a source with a blank-code row and a row
\* with a code: the first is absent, the second stored.
C7_Witness ==
    /\ MetadataLoaded
    /\ LET src == ParsedMetadata(files.meta.rows)
       IN  /\ \E i \in 1..Len(src) : Blank(src[i])
           /\ \E i \in 1..Len(src) : ~Blank(src[i]) /\ MetadataValues(src[i]) \in metadata
           /\ Cardinality(metadata) < Len(src)

(***************************************************************************)
(* Properties of serving during the load (ServeSpec)                       *)
(***************************************************************************)

\* Breakdown rows without their surrogate ids.
WithoutIds(body) ==
    [i \in 1..Len(body) |-> [timestamp |-> body[i].timestamp, values |-> body[i].values]]

\* C2: every response is computed from relations each of which is either the
\* complete old dataset or the complete new one.
C2_ReadsSeeWholeRelations ==
    /\ resp.req.endpoint = "buildings" =>
          resp.body \in UNION {BuildingsQuery(md, smd) :
                                  md \in {old.metadata, LoadedMetadata(files.meta)},
                                  smd \in {old.smart_meter_data, LoadedMeter(files.meter, 0)}}
    /\ resp.req.endpoint = "breakdown" =>
          WithoutIds(resp.body) \in
              {WithoutIds(b) :
                  b \in BreakdownQuery(old.energy_breakdown, resp.req.timestamp)
                        \cup BreakdownQuery(LoadedBreakdown(files.breakdown, 0),
                                            resp.req.timestamp)}

(***************************************************************************)
(* Properties of the read queries (QuerySpec)                              *)
(***************************************************************************)

\* C5: /api/buildings lists every metadata building exactly once, with
\* annual_energy 0 for a building without readings, by annual_energy
\* descending.
C5_BuildingsOuterJoin ==
    (resp.req.endpoint = "buildings" /\ resp.status = 200) =>
        LET b == resp.body
        IN  /\ \A m \in metadata : Cardinality({i \in 1..Len(b) : b[i].cpe = m.cpe}) = 1
            /\ \A i \in 1..Len(b) : \E m \in metadata : b[i].cpe = m.cpe
            /\ \A m \in metadata :
                  (\A r \in smart_meter_data : r.cpe # m.cpe) =>
                      \A i \in 1..Len(b) : b[i].cpe = m.cpe => b[i].annual_energy = 0
            /\ \A i, j \in 1..Len(b) : i < j => b[i].annual_energy >= b[j].annual_energy

\* /api/buildings has answered with a building without readings (total 0)
\* listed after one with a positive total.
C5_Witness ==
    /\ resp.req.endpoint = "buildings"
    /\ \E i, j \in 1..Len(resp.body) :
          /\ i < j
          /\ resp.body[i].annual_energy > 0
          /\ resp.body[j].annual_energy = 0
          /\ \A r \in smart_meter_data : r.cpe # resp.body[j].cpe

RECURSIVE SumTotals(_)
\* Sum of the total_energy values of a response (null counting as 0).
SumTotals(body) ==
    IF body = <<>> THEN 0 ELSE Coalesce0(Head(body).total_energy) + SumTotals(Tail(body))

\* The stored readings of building cpe whose timestamp falls in year.
ReadingsInYear(cpe, year) ==
    {r \in smart_meter_data :
        /\ r.cpe = cpe
        /\ ParseDateTime(r.timestamp) # NULL
        /\ <<ParseDateTime(r.timestamp)[1].Y>> = parseFloat(year)}

\* C6: the monthly totals of a building and year add up to the sum of its
\* stored readings of that year, with one entry per calendar month that has
\* readings, in chronological order.
C6_MonthlySumsMatch ==
    (/\ resp.req.endpoint = "energy"
     /\ resp.req.period = "monthly"
     /\ resp.req.year # NULL
     /\ resp.status = 200) =>
        LET b == resp.body
            in == ReadingsInYear(resp.req.cpe, resp.req.year[1])
        IN  /\ SumTotals(b) = SumValues({[id |-> r.id, v |-> r.active_energy] : r \in in})
            /\ \A i, j \in 1..Len(b) : i < j => TextLess(b[i].label, b[j].label)
            /\ {b[i].label : i \in 1..Len(b)} =
                   {Pad4(ParseDateTime(r.timestamp)[1].Y) \o "-" \o
                    Pad2(ParseDateTime(r.timestamp)[1].M) : r \in in}

\* A monthly query has answered with two months while the building also has
\* a reading in another year.
C6_Witness ==
    /\ resp.req.endpoint = "energy"
    /\ resp.req.period = "monthly"
    /\ resp.req.year # NULL
    /\ Len(resp.body) >= 2
    /\ SumTotals(resp.body) # 0
    /\ \E r \in smart_meter_data :
          /\ r.cpe = resp.req.cpe
          /\ r.active_energy # NULL
          /\ ParseDateTime(r.timestamp) # NULL
          /\ r \notin ReadingsInYear(resp.req.cpe, resp.req.year[1])

StartsWith(text, prefix) ==
    Len(text) >= Len(prefix) /\ SubSeq(text, 1, Len(prefix)) = prefix

\* C10: the breakdown lookup returns the first 24 (here BreakdownLimit) rows
\* in timestamp order of the rows whose timestamp starts with the given
\* prefix, or of all rows when no prefix is given.
C10_BreakdownPrefixOrdered ==
    resp.req.endpoint = "breakdown" =>
        LET b == resp.body
            ts == resp.req.timestamp
            match == IF ts = NULL \/ ts = <<"">> THEN energy_breakdown
                     ELSE {r \in energy_breakdown : StartsWith(r.timestamp, ts[1])}
        IN  /\ Len(b) = Min(Cardinality(match), BreakdownLimit)
            /\ \A i \in 1..Len(b) : b[i] \in match
            /\ \A i, j \in 1..Len(b) : i < j => TextLeq(b[i].timestamp, b[j].timestamp)
            /\ \A r \in match :
                  (\A i \in 1..Len(b) : b[i] # r) =>
                      \A i \in 1..Len(b) : TextLeq(b[i].timestamp, r.timestamp)

====
